---------------------------- MODULE Spec2Model ----------------------------
(***************************************************************************)
(* A model of app.py, the GATE rank predictor: the candidate table kept   *)
(* in candidate_data.xlsx, the cleaning pass, the statistics (cutoff and  *)
(* top mean), the multi-session normalisation, the score interpolation    *)
(* and the three routes /api/predict, /admin/data and /admin/download.    *)
(*                                                                         *)
(* Representation.                                                         *)
(*  - Text (candidate ids, shifts, branches) is a sequence of one          *)
(*    character strings, so that strip, upper, capitalize and the regular  *)
(*    expression are computed character by character.                      *)
(*  - A float is an integer number of 1/SCALE marks.  Every arithmetic     *)
(*    expression of the source is evaluated exactly and its result rounded *)
(*    to the nearest 1/SCALE; a square root is rounded down.               *)
(*  - A DataFrame is a sequence of rows                                    *)
(*       [candidate_id, marks, branch, shift, timestamp].                  *)
(*  - datetime.utcnow() reads the counter now, which the read advances.    *)
(***************************************************************************)
EXTENDS Integers, Sequences, FiniteSets, TLC

VARIABLES
    fileExists,   \* os.path.exists(EXCEL_FILE)
    file,         \* the rows held by candidate_data.xlsx
    now,          \* the clock datetime.utcnow() reads
    resp,         \* the response of the last request served (sequential runs)
    last,         \* history of the last request served: its input, the table
                  \* before it, every table it wrote, its two data frames
    pc,           \* concurrent runs: the position of each request thread
    loc,          \* concurrent runs: the local variables of each request thread
    fnIn,         \* function runs: the arguments drawn for the pure functions
    fnOut         \* function runs: the values the pure functions returned

vars == <<fileExists, file, now, resp, last, pc, loc, fnIn, fnOut>>

----------------------------------------------------------------------------
(* Bounds of the model *)

\* the number of datetime.utcnow() reads (accepted upserts) in a sequential run
MaxTime == 4

\* the largest record set drawn for the pure functions
MaxRecs == 2

----------------------------------------------------------------------------
(* Numbers *)

\* resolution of the model's floats: hundredths of a mark, the precision
\* the response reports (round(x, 2))
SCALE == 100

Max(a, b) == IF a >= b THEN a ELSE b

Min(a, b) == IF a <= b THEN a ELSE b

Abs(a) == IF a < 0 THEN -a ELSE a

\* a / b rounded to the nearest integer, b # 0
RoundDiv(a, b) ==
    LET n == IF b < 0 THEN -a ELSE a
        d == Abs(b)
    IN  (2 * n + d) \div (2 * d)

\* a * b / c rounded to the nearest integer, c # 0, without forming a * b
MulDiv(a, b, c) ==
    LET n == IF c < 0 THEN -b ELSE b
        d == Abs(c)
        q == n \div d
        r == n % d
    IN  a * q + RoundDiv(a * r, d)

RECURSIVE SqrtSearch(_, _, _)
\* the largest r in lo..hi with r * r <= v
SqrtSearch(v, lo, hi) ==
    IF lo >= hi THEN lo
    ELSE LET mid == (lo + hi + 1) \div 2
         IN  IF mid * mid <= v THEN SqrtSearch(v, mid, hi)
             ELSE SqrtSearch(v, lo, mid - 1)

Sqrt(v) == SqrtSearch(v, 0, 100 * SCALE)

RECURSIVE SumSeq(_)
SumSeq(s) == IF s = <<>> THEN 0 ELSE Head(s) + SumSeq(Tail(s))

\* round(x, 2) of a float
Round2(x) == RoundDiv(x * 100, SCALE) * (SCALE \div 100)

----------------------------------------------------------------------------
(* Text *)

Lowers == <<"a","b","c","d","e","f","g","h","i","j","k","l","m",
            "n","o","p","q","r","s","t","u","v","w","x","y","z">>

Uppers == <<"A","B","C","D","E","F","G","H","I","J","K","L","M",
            "N","O","P","Q","R","S","T","U","V","W","X","Y","Z">>

Digits == {"0","1","2","3","4","5","6","7","8","9"}

\* the upper-case form of every lower-case letter
UpperOf == [c \in {Lowers[i] : i \in 1..26} |-> Uppers[CHOOSE i \in 1..26 : Lowers[i] = c]]

\* the lower-case form of every upper-case letter
LowerOf == [c \in {Uppers[i] : i \in 1..26} |-> Lowers[CHOOSE i \in 1..26 : Uppers[i] = c]]

ToUpper(c) == IF c \in DOMAIN UpperOf THEN UpperOf[c] ELSE c

ToLower(c) == IF c \in DOMAIN LowerOf THEN LowerOf[c] ELSE c

IsSpace(c) == c \in {" ", "\t", "\n"}

RECURSIVE LStrip(_)
LStrip(s) == IF s # <<>> /\ IsSpace(Head(s)) THEN LStrip(Tail(s)) ELSE s

RECURSIVE RStrip(_)
RStrip(s) ==
    IF s # <<>> /\ IsSpace(s[Len(s)]) THEN RStrip(SubSeq(s, 1, Len(s) - 1)) ELSE s

\* str.strip()
Strip(s) == RStrip(LStrip(s))

\* str.upper()
Upper(s) == [i \in 1..Len(s) |-> ToUpper(s[i])]

\* str.capitalize(): first character upper-cased, the rest lower-cased
Capitalize(s) == [i \in 1..Len(s) |-> IF i = 1 THEN ToUpper(s[i]) ELSE ToLower(s[i])]

\* re.fullmatch(r'^CS\d{2}S\d{8}$', s)
FullMatch(s) ==
    /\ Len(s) = 13
    /\ s[1] = "C"
    /\ s[2] = "S"
    /\ \A i \in 3..4 : s[i] \in Digits
    /\ s[5] = "S"
    /\ \A i \in 6..13 : s[i] \in Digits

Morning == <<"M","o","r","n","i","n","g">>

Afternoon == <<"A","f","t","e","r","n","o","o","n">>

CSE == <<"C","S","E">>

----------------------------------------------------------------------------
(* 1) Data cleaning *)

\* the column normalisations of clean_candidate_data applied to one row
CleanRow(r) ==
    [r EXCEPT !.candidate_id = Upper(Strip(r.candidate_id)),
              !.shift = Capitalize(Strip(r.shift)),
              !.branch = Upper(Strip(r.branch))]

\* the four row filters of clean_candidate_data
RowValid(r) ==
    /\ FullMatch(r.candidate_id)
    /\ r.marks >= 0 /\ r.marks <= 100 * SCALE
    /\ r.shift \in {Morning, Afternoon}
    /\ r.branch = CSE

CleanAll(df) == [i \in 1..Len(df) |-> CleanRow(df[i])]

clean_candidate_data(df) ==
    IF df = <<>> THEN df ELSE SelectSeq(CleanAll(df), RowValid)

----------------------------------------------------------------------------
(* 2) File load / save *)

\* load_candidate_data: the frame returned, the table left in the file and
\* the tables written on the way
load_candidate_data(exists, f) ==
    IF exists
    THEN LET df == clean_candidate_data(f)
         IN  [df |-> df, file |-> df, writes |-> <<df>>]
    ELSE [df |-> <<>>, file |-> f, writes |-> <<>>]

----------------------------------------------------------------------------
(* 3) Helper functions for the GATE calculations *)

MarksOf(df) == [i \in 1..Len(df) |-> df[i].marks]

\* df["marks"].mean()
Mean(ms) == RoundDiv(SumSeq(ms), Len(ms))

\* df["marks"].std(ddof=1): NaN for fewer than two values
Std(ms) ==
    LET n == Len(ms)
        s1 == SumSeq(ms)
        s2 == SumSeq([i \in 1..n |-> ms[i] * ms[i]])
    IN  IF n < 2 THEN [nan |-> TRUE, val |-> 0]
        ELSE [nan |-> FALSE, val |-> Sqrt(RoundDiv(n * s2 - s1 * s1, n * (n - 1)))]

\* max(25, min(40, x))
Clamp(x) == Max(25 * SCALE, Min(40 * SCALE, x))

\* compute_cutoff without the clamp to [25, 40]
compute_cutoff_unclamped(df) ==
    IF df = <<>> THEN 25 * SCALE
    ELSE LET mu == Mean(MarksOf(df))
             sd == Std(MarksOf(df))
             sigma == IF sd.nan THEN 0 ELSE sd.val
         IN  mu + sigma

compute_cutoff(df) ==
    IF df = <<>> THEN 25 * SCALE
    ELSE LET mu == Mean(MarksOf(df))
             sd == Std(MarksOf(df))
             sigma == IF sd.nan THEN 0 ELSE sd.val
         IN  Clamp(mu + sigma)

\* df[df["shift"] == shift]
SessionDf(df, shift) == SelectSeq(df, LAMBDA r : r.shift = shift)

compute_cutoff_for_session(df, shift) ==
    LET session_df == SessionDf(df, shift)
    IN  IF session_df = <<>> THEN 25 * SCALE
        ELSE LET mu_s == Mean(MarksOf(session_df))
                 sd == Std(MarksOf(session_df))
                 sigma_s == IF sd.nan THEN 0 ELSE sd.val
             IN  Clamp(mu_s + sigma_s)

RECURSIVE SortDesc(_)
\* sort_values(ascending=False) of a sequence of marks
SortDesc(ms) ==
    IF ms = <<>> THEN <<>>
    ELSE LET i == CHOOSE j \in 1..Len(ms) : \A k \in 1..Len(ms) : ms[j] >= ms[k]
             rest == [k \in 1..(Len(ms) - 1) |-> IF k < i THEN ms[k] ELSE ms[k + 1]]
         IN  <<ms[i]>> \o SortDesc(rest)

compute_top_mean(df) ==
    IF df = <<>> THEN 80 * SCALE
    ELSE LET sorted == SortDesc(MarksOf(df))
             count == Len(sorted)
             top_count == Max(1, count \div 1000)
         IN  Mean(SubSeq(sorted, 1, top_count))

\* normalize_marks after its load: (normalized, M_t_global, M_t_session, M_q_global)
normalize_marks(raw_marks, shift, df) ==
    LET M_q_global == compute_cutoff(df)
        M_t_global == compute_top_mean(df)
        M_q_session == compute_cutoff_for_session(df, shift)
        M_t_session == compute_top_mean(SessionDf(df, shift))
        normalized ==
            IF M_t_session = M_q_session THEN raw_marks
            ELSE M_q_global + MulDiv(raw_marks - M_q_session,
                                     M_t_global - M_q_global,
                                     M_t_session - M_q_session)
    IN  [normalized |-> normalized, M_t_global |-> M_t_global,
         M_t_session |-> M_t_session, M_q_global |-> M_q_global]

\* compute_gate_score with the top anchor S_t = 900 of the other deployment
compute_gate_score_900(marks, df) ==
    LET M_q == compute_cutoff(df)
        M_t == compute_top_mean(df)
        S_q == 350
        S_t == 900
    IN  IF marks < M_q THEN [kind |-> "num", val |-> 100 * SCALE]
        ELSE IF M_t = M_q
             THEN [kind |-> IF marks = M_q THEN "nan" ELSE "inf", val |-> 0]
             ELSE [kind |-> "num",
                   val |-> S_q * SCALE + MulDiv((S_t - S_q) * SCALE, marks - M_q, M_t - M_q)]

\* compute_gate_score.  The division is not guarded: with M_t = M_q it is
\* 0/0 (kind "nan") or x/0 (kind "inf") under numpy, a ZeroDivisionError
\* under Python floats.
compute_gate_score(marks, df) ==
    LET M_q == compute_cutoff(df)
        M_t == compute_top_mean(df)
        S_q == 350
        S_t == 1000
    IN  IF marks < M_q THEN [kind |-> "num", val |-> 100 * SCALE]
        ELSE IF M_t = M_q
             THEN [kind |-> IF marks = M_q THEN "nan" ELSE "inf", val |-> 0]
             ELSE [kind |-> "num",
                   val |-> S_q * SCALE + MulDiv((S_t - S_q) * SCALE, marks - M_q, M_t - M_q)]


----------------------------------------------------------------------------
(* 4) Routes: the requests and their inputs *)

\* an absent "shift" key (None)
NoShift == [kind |-> "none", val |-> <<>>]

\* an absent "rawMarks" key (None)
NoMarks == [kind |-> "none", val |-> 0]

Str(s) == [kind |-> "str", val |-> s]

Num(x) == [kind |-> "num", val |-> x]

\* a JSON string float() cannot parse
Text == [kind |-> "text", val |-> 0]

\* "CS25S13049105"
IdA == <<"C","S","2","5","S","1","3","0","4","9","1","0","5">>

\* " cs25s00000001 ": "CS25S00000001" before strip().upper()
IdBRaw == <<" ","c","s","2","5","s","0","0","0","0","0","0","0","1"," ">>

\* "CS25X13049105": wrong separator letter
IdBad == <<"C","S","2","5","X","1","3","0","4","9","1","0","5">>

Evening == <<"E","v","e","n","i","n","g">>

\* " morning": Morning before strip().capitalize()
MorningRaw == <<" ","m","o","r","n","i","n","g">>

\* the submissions that pass the checks of predict: two candidates (one
\* typed in lower case with blanks around), three marks in the two sessions,
\* and two shift texts that are not session names as typed
PassingSubmissions ==
    [candidate_id : {IdA, IdBRaw},
     rawMarks : {Num(85 * SCALE), Num(30 * SCALE), Num(10 * SCALE)},
     shift : {Str(Morning), Str(Afternoon)}]
    \cup [candidate_id : {IdA, IdBRaw},
          rawMarks : {Num(85 * SCALE)},
          shift : {Str(Evening), Str(MorningRaw)}]

\* {"candidate_id": "CS25S13049105", "rawMarks": 85, "shift": "Morning"}
BaseSubmission == [candidate_id |-> IdA, rawMarks |-> Num(85 * SCALE), shift |-> Str(Morning)]

\* the base submission with one field absent, malformed, unparsable or out
\* of range (data.get gives "" for an absent id, None for the other two)
FaultySubmissions ==
    {[BaseSubmission EXCEPT !.candidate_id = c] : c \in {IdBad, <<>>}}
    \cup {[BaseSubmission EXCEPT !.rawMarks = m] :
                m \in {NoMarks, Text, Num(150 * SCALE), Num(-5 * SCALE)}}
    \cup {[BaseSubmission EXCEPT !.shift = NoShift]}

Submissions == PassingSubmissions \cup FaultySubmissions

NoData == [candidate_id |-> <<>>, rawMarks |-> NoMarks, shift |-> NoShift]

NoResp == [status |-> 0]

NoLast ==
    [op |-> "none", data |-> NoData, time |-> 0, beforeExists |-> FALSE,
     before |-> <<>>, wrote |-> FALSE, writes |-> <<>>, df |-> <<>>, reloaded |-> <<>>]

\* candidate_id = data.get("candidate_id", "").strip().upper()
NormId(data) == Upper(Strip(data.candidate_id))

\* the checks of predict before it loads the table: "ok" or the error returned
Validate(data) ==
    IF NormId(data) = <<>> \/ data.rawMarks.kind = "none" \/ data.shift.kind = "none"
    THEN "Candidate ID, rawMarks, and shift are required"
    ELSE IF ~FullMatch(NormId(data))
    THEN "Candidate ID must be in format CS##S########"
    ELSE IF data.rawMarks.kind = "text"
    THEN "rawMarks must be a number"
    ELSE IF data.rawMarks.val < 0 \/ data.rawMarks.val > 100 * SCALE
    THEN "Marks must be between 0 and 100."
    ELSE "ok"

IdsOf(df) == {df[i].candidate_id : i \in 1..Len(df)}

\* predict without the membership test: the submitted record is always appended
UpsertAlwaysAppend(df, candidate_id, raw_marks, shift, t) ==
    Append(df, [candidate_id |-> candidate_id, marks |-> raw_marks,
                branch |-> CSE, shift |-> shift, timestamp |-> t])

\* the update-or-append of predict
Upsert(df, candidate_id, raw_marks, shift, t) ==
    IF candidate_id \in IdsOf(df)
    THEN [i \in 1..Len(df) |->
            IF df[i].candidate_id = candidate_id
            THEN [df[i] EXCEPT !.marks = raw_marks, !.shift = shift, !.timestamp = t]
            ELSE df[i]]
    ELSE Append(df, [candidate_id |-> candidate_id, marks |-> raw_marks,
                     branch |-> CSE, shift |-> shift, timestamp |-> t])

\* the tail of predict: normalisation over the reloaded frame ndf, score and
\* count over the in-memory frame df.  raise: the unguarded division raises
\* (Python floats) instead of yielding nan/inf (numpy floats).
Respond(candidate_id, raw_marks, shift, df, ndf, raise) ==
    LET norm == normalize_marks(raw_marks, shift, ndf)
        gate_score == compute_gate_score(norm.normalized, df)
        user_count == Cardinality(IdsOf(df))
    IN  IF gate_score.kind # "num" /\ raise
        THEN [status |-> 500, error |-> "ZeroDivisionError"]
        ELSE [status |-> 200,
              candidate_id |-> candidate_id,
              rawMarks |-> raw_marks,
              normalizedMarks |-> Round2(norm.normalized),
              gateScore |-> [gate_score EXCEPT !.val = Round2(gate_score.val)],
              globalMt |-> Round2(norm.M_t_global),
              sessionMt |-> Round2(norm.M_t_session),
              cutoffGlobal |-> Round2(norm.M_q_global),
              userCount |-> user_count]

\* POST /api/predict, rejected by a check: nothing is loaded or written
PredictRejected(data, error) ==
    /\ resp' = [status |-> 400, error |-> error]
    /\ last' = [NoLast EXCEPT !.op = "predict", !.data = data, !.time = now,
                              !.beforeExists = fileExists, !.before = file]
    /\ UNCHANGED <<fileExists, file, now>>

\* POST /api/predict, past the checks: load, upsert, save, reload, score
PredictAccepted(data) ==
    /\ now < MaxTime
    /\ LET candidate_id == NormId(data)
           raw_marks == data.rawMarks.val
           shift == data.shift.val
           ld == load_candidate_data(fileExists, file)
           df == Upsert(ld.df, candidate_id, raw_marks, shift, now)
           nl == load_candidate_data(TRUE, df)
           answer == Respond(candidate_id, raw_marks, shift, df, nl.df, FALSE)
       IN  /\ file' = nl.file
           /\ fileExists' = TRUE
           /\ now' = now + 1
           /\ \/ resp' = answer
              \/ /\ answer.gateScore.kind # "num"
                 /\ resp' = Respond(candidate_id, raw_marks, shift, df, nl.df, TRUE)
           /\ last' = [op |-> "predict", data |-> data, time |-> now,
                       beforeExists |-> fileExists, before |-> file,
                       wrote |-> TRUE,
                       writes |-> ld.writes \o <<df>> \o nl.writes,
                       df |-> df, reloaded |-> nl.df]

\* POST /api/predict
Predict(data) ==
    /\ LET error == Validate(data)
       IN  IF error # "ok" THEN PredictRejected(data, error) ELSE PredictAccepted(data)
    /\ UNCHANGED <<pc, loc, fnIn, fnOut>>

\* df.to_dict(orient="records")
ToDict(df) == df

\* the csv rows written by admin_download, the header first
ToCsv(df) ==
    <<  <<"Candidate ID", "Marks", "Branch", "Shift", "Timestamp">>  >> \o
    [i \in 1..Len(df) |->
        <<df[i].candidate_id, df[i].marks, df[i].branch, df[i].shift, df[i].timestamp>>]

\* GET /admin/data
AdminData ==
    LET ld == load_candidate_data(fileExists, file)
    IN  /\ file' = ld.file
        /\ resp' = [status |-> 200, body |-> ToDict(ld.df)]
        /\ last' = [NoLast EXCEPT !.op = "admin_data", !.time = now,
                                  !.beforeExists = fileExists, !.before = file,
                                  !.writes = ld.writes, !.reloaded = ld.df]
        /\ UNCHANGED <<fileExists, now, pc, loc, fnIn, fnOut>>

\* GET /admin/download
AdminDownload ==
    LET ld == load_candidate_data(fileExists, file)
    IN  /\ file' = ld.file
        /\ resp' = [status |-> 200, body |-> ToCsv(ld.df)]
        /\ last' = [NoLast EXCEPT !.op = "admin_download", !.time = now,
                                  !.beforeExists = fileExists, !.before = file,
                                  !.writes = ld.writes, !.reloaded = ld.df]
        /\ UNCHANGED <<fileExists, now, pc, loc, fnIn, fnOut>>

Threads == {1, 2}

NoLoc ==
    [candidate_id |-> <<>>, raw_marks |-> 0, shift |-> <<>>,
     df |-> <<>>, ndf |-> <<>>, resp |-> NoResp]

NoFn == [recs |-> <<>>, m1 |-> 0, m2 |-> 0, shift |-> <<>>]

NoOut == [kind |-> "none"]

\* no candidate_data.xlsx yet, no request served
Init ==
    /\ fileExists = FALSE
    /\ file = <<>>
    /\ now = 1
    /\ resp = NoResp
    /\ last = NoLast
    /\ pc = [t \in Threads |-> "idle"]
    /\ loc = [t \in Threads |-> NoLoc]
    /\ fnIn = NoFn
    /\ fnOut = NoOut

\* requests served one at a time
Next ==
    \/ \E data \in Submissions : Predict(data)
    \/ AdminData
    \/ AdminDownload

Spec == Init /\ [][Next]_vars

----------------------------------------------------------------------------
(* Properties of the routes, over requests served one at a time (Spec) *)

\* the validation rules as the specification states them
ViolatesRule(data) ==
    \/ NormId(data) = <<>>
    \/ data.rawMarks.kind = "none"
    \/ data.shift.kind = "none"
    \/ ~FullMatch(NormId(data))
    \/ data.rawMarks.kind # "num"
    \/ data.rawMarks.val < 0
    \/ data.rawMarks.val > 100 * SCALE
    \/ data.shift.val \notin {Morning, Afternoon}

\* a persisted table that meets the record-set invariants as stored
TableClean(t) ==
    /\ \A i, j \in 1..Len(t) : t[i].candidate_id = t[j].candidate_id => i = j
    /\ \A i \in 1..Len(t) :
          /\ FullMatch(t[i].candidate_id)
          /\ t[i].marks >= 0 /\ t[i].marks <= 100 * SCALE
          /\ t[i].shift \in {Morning, Afternoon}
          /\ t[i].branch = CSE

\* C1: a submission to predict that violates a validation rule (a field
\* missing, a malformed candidate id, marks unparsable or outside [0,100], a
\* shift other than Morning/Afternoon) ends in an error response, and no
\* table is written during the request: the persisted records are what
\* they were before it.
C1_InvalidSubmissionRejectedUnwritten ==
    (last.op = "predict" /\ ViolatesRule(last.data)) =>
        /\ resp.status >= 400
        /\ \A i \in 1..Len(last.writes) : last.writes[i] = last.before
        /\ file = last.before
        /\ fileExists = last.beforeExists

\* C2: a valid submission for a candidate already in the table leaves the
\* number of distinct candidates unchanged, sets that record's marks, shift
\* and timestamp to the submitted and current values, leaves its branch as
\* stored and leaves every other record as it was.
C2_UpsertExistingInPlace ==
    (/\ last.op = "predict"
     /\ ~ViolatesRule(last.data)
     /\ NormId(last.data) \in IdsOf(last.before)) =>
        /\ Cardinality(IdsOf(file)) = Cardinality(IdsOf(last.before))
        /\ Len(file) = Len(last.before)
        /\ \A i \in 1..Len(last.before) :
              IF last.before[i].candidate_id = NormId(last.data)
              THEN /\ file[i].candidate_id = last.before[i].candidate_id
                   /\ file[i].marks = last.data.rawMarks.val
                   /\ file[i].shift = last.data.shift.val
                   /\ file[i].timestamp = last.time
                   /\ file[i].branch = last.before[i].branch
              ELSE file[i] = last.before[i]

\* C2 witness: a valid submission has overwritten the marks, the shift and
\* the timestamp of a stored candidate while another candidate is stored
C2_Witness ==
    /\ last.op = "predict"
    /\ ~ViolatesRule(last.data)
    /\ Len(last.before) = 2
    /\ \E i \in 1..2 :
          /\ last.before[i].candidate_id = NormId(last.data)
          /\ last.before[i].marks # last.data.rawMarks.val
          /\ last.before[i].shift # last.data.shift.val
          /\ last.before[i].timestamp # last.time
          /\ file[i].marks = last.data.rawMarks.val

\* C5: the scoring step never divides by zero: when a valid submission is
\* scored over a table whose top mean equals its cutoff and the normalised
\* mark is not below the cutoff, the request completes with a well-formed
\* numeric gateScore.
C5_ScoreDefinedWhenTopMeanEqualsCutoff ==
    (/\ last.op = "predict"
     /\ last.wrote
     /\ ~ViolatesRule(last.data)
     /\ compute_top_mean(last.df) = compute_cutoff(last.df)
     /\ normalize_marks(last.data.rawMarks.val, last.data.shift.val,
                        last.reloaded).normalized >= compute_cutoff(last.df)) =>
        /\ resp.status = 200
        /\ resp.gateScore.kind = "num"

\* the first request of scenario 1 has been served on an empty store
Scenario1Served ==
    /\ last.op = "predict"
    /\ ~last.beforeExists
    /\ last.before = <<>>
    /\ last.data = BaseSubmission

\* C6 as stated: on an empty store, predict(CS25S13049105, 85, Morning)
\* computes cutoff 25 and top mean 80 globally and for the session (the
\* empty-set fallbacks), returns normalizedMarks 85 and the score
\* interpolated with Mq = 25 and Mt = 80.
C6_Scenario1Fallbacks ==
    Scenario1Served =>
        /\ resp.status = 200
        /\ resp.cutoffGlobal = 25 * SCALE
        /\ compute_cutoff_for_session(last.reloaded, Morning) = 25 * SCALE
        /\ resp.globalMt = 80 * SCALE
        /\ resp.sessionMt = 80 * SCALE
        /\ resp.normalizedMarks = 85 * SCALE
        /\ resp.gateScore =
              Num(350 * SCALE + ((1000 - 350) * SCALE * (85 - 25)) \div (80 - 25))

\* C6 amended: on an empty store, predict(CS25S13049105, 85, Morning)
\* computes its statistics over the table it has just written (the one
\* submitted record): cutoff 40 and top mean 85 globally and for the
\* session, so the session top mean differs from the session cutoff and the
\* affine branch is taken; it returns normalizedMarks 85, gateScore 1000
\* (the interpolation with Mq = 40, Mt = 85) and userCount 1.
C6_Scenario1PostWrite ==
    Scenario1Served =>
        /\ resp.status = 200
        /\ last.reloaded = file
        /\ Len(file) = 1
        /\ resp.cutoffGlobal = 40 * SCALE
        /\ compute_cutoff_for_session(last.reloaded, Morning) = 40 * SCALE
        /\ resp.globalMt = 85 * SCALE
        /\ resp.sessionMt = 85 * SCALE
        /\ resp.sessionMt # compute_cutoff_for_session(last.reloaded, Morning)
        /\ resp.normalizedMarks = 85 * SCALE
        /\ resp.gateScore = Num(1000 * SCALE)
        /\ resp.userCount = 1

\* C6 witness: scenario 1 has been served and answered
C6_Witness == Scenario1Served /\ resp.status = 200 /\ fileExists

\* C9: within one predict request that reaches the write step, the frame
\* reloaded inside normalize_marks is the in-memory frame passed to
\* compute_gate_score and counted for userCount, and it is the table the
\* request persisted.
C9_OneSnapshotPerRequest ==
    (last.op = "predict" /\ last.wrote) =>
        /\ last.reloaded = last.df
        /\ file = last.df

\* C10: every table written to the store, by any sequence of predict,
\* admin_data and admin_download requests from an empty store, has no two
\* records with one candidate_id and only records that meet the cleaning
\* constraints (id pattern, marks in [0,100], shift Morning/Afternoon,
\* branch CSE).
C10_EveryWrittenTableClean ==
    /\ TableClean(file)
    /\ \A i \in 1..Len(last.writes) : TableClean(last.writes[i])

----------------------------------------------------------------------------
(* The statistics, the normalisation and the score as pure functions of a  *)
(* frame (FnSpec): the arguments are drawn, then one function is applied   *)

\* the marks of the frames drawn
FnMarks == {10 * SCALE, 30 * SCALE, 50 * SCALE, 90 * SCALE}

\* the marks normalised and scored
FnQueryMarks == {20 * SCALE, 30 * SCALE, 45 * SCALE, 60 * SCALE}

Sessions == {Morning, Afternoon}

\* the columns of a row the statistics read
FnRows == [marks : FnMarks, shift : Sessions]

FnFrames == UNION {[1..n -> FnRows] : n \in 0..MaxRecs}

FnInit ==
    /\ fileExists = FALSE
    /\ file = <<>>
    /\ now = 1
    /\ resp = NoResp
    /\ last = NoLast
    /\ pc = [t \in Threads |-> "idle"]
    /\ loc = [t \in Threads |-> NoLoc]
    /\ fnIn \in [recs : FnFrames, m1 : FnQueryMarks, m2 : FnQueryMarks, shift : Sessions]
    /\ fnOut = NoOut

\* compute_cutoff, compute_cutoff_for_session and compute_top_mean applied
FnStatistics ==
    /\ fnOut = NoOut
    /\ fnOut' = [kind |-> "statistics",
                 cutoff |-> compute_cutoff(fnIn.recs),
                 session_cutoff |-> compute_cutoff_for_session(fnIn.recs, fnIn.shift),
                 top_mean |-> compute_top_mean(fnIn.recs)]
    /\ UNCHANGED <<fileExists, file, now, resp, last, pc, loc, fnIn>>

\* compute_gate_score applied to the two marks
FnScore ==
    /\ fnOut = NoOut
    /\ fnOut' = [kind |-> "score",
                 s1 |-> compute_gate_score(fnIn.m1, fnIn.recs),
                 s2 |-> compute_gate_score(fnIn.m2, fnIn.recs)]
    /\ UNCHANGED <<fileExists, file, now, resp, last, pc, loc, fnIn>>

\* normalize_marks applied to the two marks, to the session cutoff and to the
\* session top mean
FnNormalize ==
    /\ fnOut = NoOut
    /\ LET n1 == normalize_marks(fnIn.m1, fnIn.shift, fnIn.recs)
           M_q_session == compute_cutoff_for_session(fnIn.recs, fnIn.shift)
           M_t_session == n1.M_t_session
       IN  fnOut' = [kind |-> "normalize",
                     n1 |-> n1.normalized,
                     n2 |-> normalize_marks(fnIn.m2, fnIn.shift, fnIn.recs).normalized,
                     M_q_session |-> M_q_session,
                     M_t_session |-> M_t_session,
                     M_q_global |-> n1.M_q_global,
                     M_t_global |-> n1.M_t_global,
                     of_cutoff |->
                         normalize_marks(M_q_session, fnIn.shift, fnIn.recs).normalized,
                     of_top_mean |->
                         normalize_marks(M_t_session, fnIn.shift, fnIn.recs).normalized]
    /\ UNCHANGED <<fileExists, file, now, resp, last, pc, loc, fnIn>>

FnNext == FnStatistics \/ FnScore \/ FnNormalize

FnSpec == FnInit /\ [][FnNext]_vars

\* C3: compute_gate_score(m, records) is 100 exactly when m is below
\* compute_cutoff(records), and of two marks m1 < m2 at or above the cutoff
\* the larger gets the strictly larger score, for every record set (also
\* those whose top mean is below the clamped cutoff).
C3_ScoreFloorAndMonotone ==
    fnOut.kind = "score" =>
        /\ (fnOut.s1 = Num(100 * SCALE)) <=> (fnIn.m1 < compute_cutoff(fnIn.recs))
        /\ (fnIn.m1 < fnIn.m2 /\ fnIn.m1 >= compute_cutoff(fnIn.recs)) =>
              /\ fnOut.s1.kind = "num"
              /\ fnOut.s2.kind = "num"
              /\ fnOut.s1.val < fnOut.s2.val

\* the rows of the session drawn
FnSessionRows == {i \in 1..Len(fnIn.recs) : fnIn.recs[i].shift = fnIn.shift}

\* C7: compute_cutoff and compute_cutoff_for_session return a value in
\* [25, 40]; each returns exactly 25 on an empty set (an empty session
\* subset); with a single record the standard deviation counts as 0, so the
\* cutoff is that record's mark clamped to [25, 40].
C7_CutoffClamped ==
    fnOut.kind = "statistics" =>
        /\ fnOut.cutoff >= 25 * SCALE /\ fnOut.cutoff <= 40 * SCALE
        /\ fnOut.session_cutoff >= 25 * SCALE /\ fnOut.session_cutoff <= 40 * SCALE
        /\ fnIn.recs = <<>> => fnOut.cutoff = 25 * SCALE
        /\ FnSessionRows = {} => fnOut.session_cutoff = 25 * SCALE
        /\ Len(fnIn.recs) = 1 =>
              fnOut.cutoff =
                  IF fnIn.recs[1].marks < 25 * SCALE THEN 25 * SCALE
                  ELSE IF fnIn.recs[1].marks > 40 * SCALE THEN 40 * SCALE
                  ELSE fnIn.recs[1].marks
        /\ \A i \in FnSessionRows :
              FnSessionRows = {i} =>
                  fnOut.session_cutoff =
                      IF fnIn.recs[i].marks < 25 * SCALE THEN 25 * SCALE
                      ELSE IF fnIn.recs[i].marks > 40 * SCALE THEN 40 * SCALE
                      ELSE fnIn.recs[i].marks

\* C7 witness: the cutoffs of a frame of two records have been computed,
\* the global one strictly inside (25, 40) from a non-zero deviation, the
\* session one from a single record
C7_Witness ==
    /\ fnOut.kind = "statistics"
    /\ Len(fnIn.recs) = 2
    /\ fnIn.recs[1].marks # fnIn.recs[2].marks
    /\ fnOut.cutoff > 25 * SCALE /\ fnOut.cutoff < 40 * SCALE
    /\ Cardinality(FnSessionRows) = 1
    /\ fnOut.session_cutoff = 30 * SCALE

\* C8: normalize_marks keeps the order of two raw marks of one session
\* (the slope is never negative), and when the session top mean differs
\* from the session cutoff it maps the session cutoff to the global cutoff
\* and the session top mean to the global top mean.
C8_NormalizeOrderPreserving ==
    fnOut.kind = "normalize" =>
        /\ fnIn.m1 < fnIn.m2 => fnOut.n1 <= fnOut.n2
        /\ fnOut.M_t_session # fnOut.M_q_session =>
              /\ fnOut.of_cutoff = fnOut.M_q_global
              /\ fnOut.of_top_mean = fnOut.M_t_global

----------------------------------------------------------------------------
(* Two predict requests served by two threads (ConcSpec): every read and   *)
(* every write of candidate_data.xlsx is one step                          *)

\* the submissions of the two threads
ConcSubmissions ==
    [candidate_id : {IdA, IdBRaw},
     rawMarks : {Num(85 * SCALE), Num(30 * SCALE)},
     shift : {Str(Morning), Str(Afternoon)}]
    \cup {[BaseSubmission EXCEPT !.candidate_id = IdBad]}

\* predict up to its load: the checks
CValidate(t, data) ==
    /\ pc[t] = "idle"
    /\ LET error == Validate(data)
       IN  IF error # "ok"
           THEN /\ loc' = [loc EXCEPT ![t].resp = [status |-> 400, error |-> error]]
                /\ pc' = [pc EXCEPT ![t] = "done"]
           ELSE /\ loc' = [loc EXCEPT ![t].candidate_id = NormId(data),
                                      ![t].raw_marks = data.rawMarks.val,
                                      ![t].shift = data.shift.val]
                /\ pc' = [pc EXCEPT ![t] = "load"]
    /\ UNCHANGED <<fileExists, file, now, resp, last, fnIn, fnOut>>

\* load_candidate_data of predict: exists, read_excel, clean
CLoadRead(t) ==
    /\ pc[t] = "load"
    /\ IF fileExists
       THEN /\ loc' = [loc EXCEPT ![t].df = clean_candidate_data(file)]
            /\ pc' = [pc EXCEPT ![t] = "loadsave"]
       ELSE /\ loc' = [loc EXCEPT ![t].df = <<>>]
            /\ pc' = [pc EXCEPT ![t] = "merge"]
    /\ UNCHANGED <<fileExists, file, now, resp, last, fnIn, fnOut>>

\* load_candidate_data of predict: save the cleaned frame back
CLoadSave(t) ==
    /\ pc[t] = "loadsave"
    /\ file' = loc[t].df
    /\ pc' = [pc EXCEPT ![t] = "merge"]
    /\ UNCHANGED <<fileExists, now, resp, last, loc, fnIn, fnOut>>

\* predict: update or append in memory, then save_candidate_data
CMergeSave(t) ==
    /\ pc[t] = "merge"
    /\ LET df == Upsert(loc[t].df, loc[t].candidate_id, loc[t].raw_marks, loc[t].shift, now)
       IN  /\ loc' = [loc EXCEPT ![t].df = df]
           /\ file' = df
    /\ fileExists' = TRUE
    /\ now' = now + 1
    /\ pc' = [pc EXCEPT ![t] = "reload"]
    /\ UNCHANGED <<resp, last, fnIn, fnOut>>

\* load_candidate_data of normalize_marks: exists, read_excel, clean
CReloadRead(t) ==
    /\ pc[t] = "reload"
    /\ IF fileExists
       THEN /\ loc' = [loc EXCEPT ![t].ndf = clean_candidate_data(file)]
            /\ pc' = [pc EXCEPT ![t] = "reloadsave"]
       ELSE /\ loc' = [loc EXCEPT ![t].ndf = <<>>]
            /\ pc' = [pc EXCEPT ![t] = "respond"]
    /\ UNCHANGED <<fileExists, file, now, resp, last, fnIn, fnOut>>

\* load_candidate_data of normalize_marks: save the cleaned frame back
CReloadSave(t) ==
    /\ pc[t] = "reloadsave"
    /\ file' = loc[t].ndf
    /\ pc' = [pc EXCEPT ![t] = "respond"]
    /\ UNCHANGED <<fileExists, now, resp, last, loc, fnIn, fnOut>>

\* the rest of normalize_marks, compute_gate_score and the response
CRespond(t) ==
    /\ pc[t] = "respond"
    /\ \E raise \in BOOLEAN :
          loc' = [loc EXCEPT ![t].resp =
                     Respond(loc[t].candidate_id, loc[t].raw_marks, loc[t].shift,
                             loc[t].df, loc[t].ndf, raise)]
    /\ pc' = [pc EXCEPT ![t] = "done"]
    /\ UNCHANGED <<fileExists, file, now, resp, last, fnIn, fnOut>>

ConcNext ==
    \E t \in Threads :
        \/ \E data \in ConcSubmissions : CValidate(t, data)
        \/ CLoadRead(t)
        \/ CLoadSave(t)
        \/ CMergeSave(t)
        \/ CReloadRead(t)
        \/ CReloadSave(t)
        \/ CRespond(t)

ConcSpec == Init /\ [][ConcNext]_vars

\* C4: the read-modify-write cycles of two concurrent predict requests do
\* not interleave; in particular, once two requests for distinct valid
\* candidate ids have both completed, the persisted table holds the records
\* of both candidates.
C4_NoLostUpdate ==
    (/\ pc[1] = "done" /\ pc[2] = "done"
     /\ loc[1].resp.status # 400 /\ loc[2].resp.status # 400
     /\ loc[1].candidate_id # loc[2].candidate_id) =>
        {loc[1].candidate_id, loc[2].candidate_id} \subseteq IdsOf(file)

=============================================================================
